---- MODULE Spec2Model ----
(***************************************************************************)
(* The fetch / accumulate / align / correct / render pipeline of covid19   *)
(* (src/main.go, second revision of the file: fetchData, cleanup,          *)
(* genImage, imgHandle).  One request is one run of the pipeline; the      *)
(* server then serves the next request.                                    *)
(*                                                                         *)
(* float64 observation values are modelled as integers (every cell of the  *)
(* modelled inputs is an integer literal).  Go slices are 0-based, TLA+    *)
(* sequences are 1-based: Go index i is element i+1.                       *)
(***************************************************************************)
EXTENDS Integers, Sequences, FiniteSets, TLC

VARIABLES
    title,      \* imgHandle's metric identifier
    cutoff,     \* imgHandle's cutoff value
    pc,         \* position of the request in the pipeline
    hdr,        \* the CSV header: number of columns, text of hdr[4] and hdr[len-1]
    rows,       \* the data records raw.Read() has returned so far
    dataset,    \* fetchData's Dataset: date, start, table, cutoff
    err,        \* the error (or panic) the request ended with, "" if none
    daily,      \* genImage: the per-country daily series (second plot)
    lxCum,      \* genImage: lockdown x-position in the cumulative plot
    lxDaily     \* genImage: lockdown x-position in the daily plot

vars == <<title, cutoff, pc, hdr, rows, dataset, err, daily, lxCum, lxDaily>>

(***************************************************************************)
(* Bounds                                                                  *)
(***************************************************************************)
MaxRows == 2

(***************************************************************************)
(* Program constants                                                       *)
(***************************************************************************)
countries == <<"France", "Italy", "Spain", "Germany", "US", "United Kingdom">>

Countries == {countries[i] : i \in 1..Len(countries)}

\* The (title, cutoff) pairs the handlers are registered with, a case
\* variant of one of them, and the title the earlier revision registered.
Requests ==
    { <<"confirmed", 100>>, <<"deaths", 10>>, <<"Deaths", 10>>, <<"cases", 100>> }

Date(y, m, d) == [y |-> y, m |-> m, d |-> d]

ZeroTime == Date(1, 1, 1)

lockDB ==
    [name \in {"Italy", "France", "United Kingdom"} |->
        CASE name = "Italy"  -> Date(2020, 2, 27)
          [] name = "France" -> Date(2020, 3, 17)
          [] OTHER           -> Date(2020, 3, 23)]

(***************************************************************************)
(* Inputs: the CSV stream                                                  *)
(***************************************************************************)
\* A header cell holding text "f1<sep>f2<sep>f3", f3 written with `digits` digits.
Text(sep, f1, f2, f3, digits) ==
    [sep |-> sep, f1 |-> f1, f2 |-> f2, f3 |-> f3, digits |-> digits]

NoText == Text("", 0, 0, 0, 0)

Header(n, first, last) == [len |-> n, first |-> first, last |-> last]

NoHeader == Header(0, NoText, NoText)

Headers ==
    { Header(1,  NoText, NoText),                                        \* one column, e.g. an error page
      Header(4,  NoText, NoText),                                        \* no day column
      Header(5,  Text("/", 1, 22, 20, 2),   Text("/", 1, 22, 20, 2)),    \* 1 day
      Header(5,  Text("-", 2020, 1, 22, 2), Text("-", 2020, 1, 22, 2)),  \* 2020-01-22: no layout matches
      Header(6,  Text("/", 2, 29, 20, 2),   Text("/", 2, 30, 20, 2)),    \* 2 days, last date out of range
      Header(7,  Text("/", 1, 22, 2020, 4), Text("/", 1, 24, 2020, 4)),  \* 3 days, 4-digit years
      Header(18, Text("/", 1, 22, 20, 2),   Text("/", 2, 4, 20, 2)),     \* 14 days
      Header(58, Text("/", 1, 22, 20, 2),   Text("/", 3, 15, 20, 2)) }   \* 54 days

\* A data row's day cells: `pre` before the 1-based position `at`, `post`
\* from it on; at = 0 puts `post` in the last cell only.
Shape(pre, post, at) == [pre |-> pre, post |-> post, at |-> at]

Shapes ==
    { Shape("5", "5", 1),       \* 5,5,5,...        below both cutoffs
      Shape("", "100", 2),      \* ,100,100,...     blank first cell
      Shape("5", "100", 4),     \* 5,5,5,100,...
      Shape("100", "", 2),      \* 100,,,...        a decreasing series
      Shape("5", "x", 0),       \* 5,...,5,x        unparseable last cell
      Shape("5", "-5", 2),      \* 5,-5,-5,...      negative cells
      Shape("", "100", 0) }     \* ,...,,100        reaches the cutoff on the last day

\* The rows of the stream: every shape for France, three for Italy, and two
\* for China, which is not one of the countries.
RowKinds ==
    ({"France"} \X Shapes)
    \cup { <<"Italy", Shape("5", "100", 4)>>,
           <<"Italy", Shape("5", "5", 1)>>,
           <<"Italy", Shape("", "100", 0)>>,
           <<"China", Shape("5", "x", 0)>>,
           <<"China", Shape("100", "", 2)>> }

CellsOf(s, sz) ==
    [i \in 1..sz |->
        IF (s.at = 0 /\ i < sz) \/ (s.at > 0 /\ i < s.at) THEN s.pre ELSE s.post]

\* The records raw.Read() can return after a header of n columns
\* (encoding/csv rejects records whose field count differs from the header's).
Records(n) ==
    { [name |-> k[1], days |-> CellsOf(k[2], n - 4)] : k \in RowKinds }

(***************************************************************************)
(* Helpers                                                                 *)
(***************************************************************************)
Max(a, b) == IF a >= b THEN a ELSE b

Zeros(sz) == [i \in 1..sz |-> 0]

\* Go map read: the zero value when the key is absent.
Lookup(m, k) == IF k \in DOMAIN m THEN m[k] ELSE 0

\* strings.ToLower on the titles of Requests.
ToLower(s) == IF s = "Deaths" THEN "deaths" ELSE s

\* strconv.ParseFloat(str, 64) on the cell texts of Shapes.
ParseFloat(str) ==
    CASE str = "5"   -> [bad |-> FALSE, v |-> 5]
      [] str = "100" -> [bad |-> FALSE, v |-> 100]
      [] str = "-5"  -> [bad |-> FALSE, v |-> 0 - 5]
      [] str = "0"   -> [bad |-> FALSE, v |-> 0]
      [] OTHER       -> [bad |-> TRUE,  v |-> 0]

\* fetchData's conversion of rec[4:] into data.
ParseRow(days) ==
    IF \E i \in 1..Len(days) : days[i] # "" /\ ParseFloat(days[i]).bad
    THEN [bad |-> TRUE, data |-> <<>>]
    ELSE [bad |-> FALSE,
          data |-> [i \in 1..Len(days) |->
                       IF days[i] = "" THEN 0 ELSE ParseFloat(days[i]).v]]

\* Variant of floatsAdd: the row replaces the running sequence.
floatsAddOverwrite(dst, s) == s

\* floats.Add(dst, s): dst[i] += s[i].

floatsAdd(dst, s) == [i \in 1..Len(dst) |-> dst[i] + s[i]]

(***************************************************************************)
(* Threshold scan and truncation (fetchData)                               *)
(***************************************************************************)
\* Variant of Scan: the comparison is strict.
RECURSIVE ScanStrict(_, _, _)
ScanStrict(data, cut, i) ==
    IF i >= Len(data) THEN [found |-> FALSE, idx |-> 0]
    ELSE IF data[i + 1] > cut THEN [found |-> TRUE, idx |-> i]
    ELSE ScanStrict(data, cut, i + 1)

\* Variant of Scan: no break, the last index reaching the cutoff wins.
RECURSIVE ScanLast(_, _, _)
ScanLast(data, cut, i) ==
    IF i >= Len(data) THEN [found |-> FALSE, idx |-> 0]
    ELSE LET later == ScanLast(data, cut, i + 1)
         IN  IF later.found THEN later
             ELSE IF data[i + 1] >= cut THEN [found |-> TRUE, idx |-> i]
             ELSE later

\* for i, v := range data { if v >= cutoff { idx = i; ...; break } }
\* from Go index i on; found tells whether the body of the if ran.
RECURSIVE Scan(_, _, _)
Scan(data, cut, i) ==
    IF i >= Len(data) THEN [found |-> FALSE, idx |-> 0]
    ELSE IF data[i + 1] >= cut THEN [found |-> TRUE, idx |-> i]
    ELSE Scan(data, cut, i + 1)

\* data[idx:]
Slice(data, idx) == SubSeq(data, idx + 1, Len(data))

(***************************************************************************)
(* Dates (parseDate, time.Parse, time.Date, Time.Sub)                      *)
(***************************************************************************)
IsLeap(y) == (y % 4 = 0 /\ y % 100 # 0) \/ y % 400 = 0

DaysIn(y, m) ==
    IF m = 2 THEN (IF IsLeap(y) THEN 29 ELSE 28)
    ELSE IF m \in {4, 6, 9, 11} THEN 30 ELSE 31

\* time.Parse(layout, v) for the layouts "1/2/06" and "1/2/2006".
timeParse(layout, v) ==
    LET digits == IF layout = "1/2/06" THEN 2 ELSE 4
        year   == IF digits = 4 THEN v.f3
                  ELSE IF v.f3 >= 69 THEN 1900 + v.f3 ELSE 2000 + v.f3
    IN  IF v.sep # "/" \/ v.digits # digits
           \/ v.f1 \notin 1..12 \/ v.f2 < 1
        THEN [bad |-> TRUE, t |-> ZeroTime]
        ELSE IF v.f2 > DaysIn(year, v.f1)
        THEN [bad |-> TRUE, t |-> ZeroTime]
        ELSE [bad |-> FALSE, t |-> Date(year, v.f1, v.f2)]

\* parseDate(v, layouts...): the first layout that parses.
RECURSIVE parseDate(_, _)
parseDate(v, layouts) ==
    IF layouts = <<>> THEN [bad |-> TRUE, t |-> ZeroTime]
    ELSE IF ~timeParse(Head(layouts), v).bad THEN timeParse(Head(layouts), v)
    ELSE parseDate(v, Tail(layouts))

layouts == <<"1/2/06", "1/2/2006">>

\* time.Date(y, m, d, 0, 0, 0, 0, loc) with d >= 1 possibly past the end
\* of the month: the date is normalised.
RECURSIVE timeDate(_, _, _)
timeDate(y, m, d) ==
    IF d <= DaysIn(y, m) THEN Date(y, m, d)
    ELSE IF m = 12 THEN timeDate(y + 1, 1, d - DaysIn(y, m))
    ELSE timeDate(y, m + 1, d - DaysIn(y, m))

\* Days from 1900-01-01 to the (normalised) date t.
DayNumber(t) ==
    365 * (t.y - 1900) + Cardinality({yy \in 1900..(t.y - 1) : IsLeap(yy)})
    + (LET RECURSIVE Before(_)
           Before(m) == IF m = 1 THEN 0 ELSE Before(m - 1) + DaysIn(t.y, m - 1)
       IN  Before(t.m))
    + t.d

\* Variant of beg: the offset is not added.
begNoOffset(start, v) == start

\* beg := time.Date(start.Year(), start.Month(), start.Day()+v, ...)

beg(start, v) == timeDate(start.y, start.m, start.d + v)

\* lx := lockdown.Sub(beg).Hours() / 24
lx(lockdown, start, v) == DayNumber(lockdown) - DayNumber(beg(start, v))

(***************************************************************************)
(* cleanup                                                                 *)
(***************************************************************************)
\* The assignments tbl[i] = v of each case, in program order: <<i, v>>.
cleanupTable(t) ==
    CASE t = "deaths" ->
           << <<2, 30>>, <<10, 175>>, <<11, 244>>, <<12, 372>> >>
      [] t = "confirmed" ->
           << <<35, 68605>>, <<36, 70478>>, <<37, 74390>>, <<38, 78167>>,
              <<39, 82048>>, <<40, 86344>>, <<41, 90676>>, <<42, 93790>>,
              <<43, 95403>>, <<44, 98076>>, <<45, 103573>>, <<46, 106206>>,
              <<47, 108847>>, <<48, 109252>>, <<49, 111821>>, <<50, 112606>>,
              <<51, 114657>>, <<52, 117324>> >>
      [] OTHER -> << >>

KnownTitles == {"deaths", "confirmed"}

\* Variant of assign: every index is one too high.
RECURSIVE assignShifted(_, _, _)
assignShifted(tbl, ws, k) ==
    IF k > Len(ws) THEN [panic |-> FALSE, tbl |-> tbl]
    ELSE IF ws[k][1] + 1 >= Len(tbl) THEN [panic |-> TRUE, tbl |-> tbl]
    ELSE assignShifted([tbl EXCEPT ![ws[k][1] + 2] = ws[k][2]], ws, k + 1)

\* Run the assignments ws[k..] on tbl; an index outside tbl panics
\* (index out of range), the assignments before it having been made.
RECURSIVE assign(_, _, _)
assign(tbl, ws, k) ==
    IF k > Len(ws) THEN [panic |-> FALSE, tbl |-> tbl]
    ELSE IF ws[k][1] >= Len(tbl) THEN [panic |-> TRUE, tbl |-> tbl]
    ELSE assign([tbl EXCEPT ![ws[k][1] + 1] = ws[k][2]], ws, k + 1)

(***************************************************************************)
(* Daily series (genImage, second plot)                                    *)
(***************************************************************************)
\* Variant of deltaLoop: subtracts the already derived ys[i-1].
RECURSIVE deltaLoopChained(_, _, _)
deltaLoopChained(ys, orig, i) ==
    IF i >= Len(ys) THEN ys
    ELSE IF i = 0 THEN deltaLoopChained(ys, orig, i + 1)
    ELSE deltaLoopChained([ys EXCEPT ![i + 1] = Max(0, ys[i + 1] - ys[i])],
                          orig, i + 1)

\* Variant of deltaLoop: no floor at zero.
RECURSIVE deltaLoopNoFloor(_, _, _)
deltaLoopNoFloor(ys, orig, i) ==
    IF i >= Len(ys) THEN ys
    ELSE IF i = 0 THEN deltaLoopNoFloor(ys, orig, i + 1)
    ELSE deltaLoopNoFloor([ys EXCEPT ![i + 1] = ys[i + 1] - orig[i]],
                          orig, i + 1)

\* ys is a copy of orig; for i >= 1: ys[i] = math.Max(0, ys[i]-orig[i-1]).
RECURSIVE deltaLoop(_, _, _)
deltaLoop(ys, orig, i) ==
    IF i >= Len(ys) THEN ys
    ELSE IF i = 0 THEN deltaLoop(ys, orig, i + 1)
    ELSE deltaLoop([ys EXCEPT ![i + 1] = Max(0, ys[i + 1] - orig[i])],
                   orig, i + 1)

(***************************************************************************)
(* State machine                                                           *)
(***************************************************************************)
NewDataset ==
    [date |-> ZeroTime, start |-> ZeroTime, table |-> << >>, cutoff |-> << >>]

\* A request arrives at one of the image handlers: locals are fresh.
Fresh(t, c) ==
    /\ title = t
    /\ cutoff = c
    /\ pc = "get"
    /\ hdr = NoHeader
    /\ rows = << >>
    /\ dataset = NewDataset
    /\ err = ""
    /\ daily = << >>
    /\ lxCum = << >>
    /\ lxDaily = << >>

Init == \E r \in Requests : Fresh(r[1], r[2])

\* The request ends with error e returned by fetchData (imgHandle answers 500).
Fail(e) ==
    /\ pc' = "err"
    /\ err' = e

\* The request ends in a panic that unwinds fetchData, genImage and the handler.
Panic(e) ==
    /\ pc' = "panic"
    /\ err' = e

\* resp, err := http.Get(url)
Get ==
    /\ pc = "get"
    /\ \/ pc' = "hdr" /\ err' = err
       \/ Fail("could not retrieve data file")
    /\ UNCHANGED <<title, cutoff, hdr, rows, dataset, daily, lxCum, lxDaily>>

\* hdr, err := raw.Read(), then the per-country make([]float64, sz).
ReadHeader ==
    /\ pc = "hdr"
    /\ \/ /\ Fail("could not read CSV header")
          /\ UNCHANGED <<hdr, dataset>>
       \/ \E h \in Headers :
            /\ hdr' = h
            /\ IF h.len - 4 < 0
               THEN /\ Panic("makeslice: len out of range")
                    /\ UNCHANGED dataset
               ELSE /\ dataset' = [dataset EXCEPT
                          !.table = [name \in Countries |-> Zeros(h.len - 4)]]
                    /\ pc' = "rows"
                    /\ err' = err
    /\ UNCHANGED <<title, cutoff, rows, daily, lxCum, lxDaily>>

\* One iteration of the read loop that returns a record.
ReadRow ==
    /\ pc = "rows"
    /\ Len(rows) < MaxRows
    /\ \E rec \in Records(hdr.len) :
         /\ rows' = Append(rows, rec)
         /\ IF rec.name \notin DOMAIN dataset.table
            THEN UNCHANGED <<pc, err, dataset>>
            ELSE LET r == ParseRow(rec.days)
                 IN  IF r.bad
                     THEN Fail("could not parse") /\ UNCHANGED dataset
                     ELSE /\ dataset' = [dataset EXCEPT
                                !.table[rec.name] = floatsAdd(@, r.data)]
                          /\ UNCHANGED <<pc, err>>
    /\ UNCHANGED <<title, cutoff, hdr, daily, lxCum, lxDaily>>

\* raw.Read() returns io.EOF (leave the loop) or another error.
ReadEnd ==
    /\ pc = "rows"
    /\ \/ pc' = "align" /\ err' = err
       \/ Fail("could not read CSV data")
    /\ UNCHANGED <<title, cutoff, hdr, rows, dataset, daily, lxCum, lxDaily>>

\* The threshold loop over countries.
Align ==
    /\ pc = "align"
    /\ LET tbl == dataset.table
           hit(name) == Scan(tbl[name], cutoff, 0)
       IN  dataset' = [dataset EXCEPT
              !.cutoff = [name \in {n \in Countries : hit(n).found} |-> hit(name).idx],
              !.table  = [name \in DOMAIN tbl |->
                             IF name \in Countries
                             THEN Slice(tbl[name], hit(name).idx)
                             ELSE tbl[name]]]
    /\ pc' = "dates"
    /\ UNCHANGED <<title, cutoff, hdr, rows, err, daily, lxCum, lxDaily>>

\* The loop that parses hdr[4] into start and hdr[len(hdr)-1] into date.
Dates ==
    /\ pc = "dates"
    /\ IF hdr.len < 5
       THEN Panic("hdr[4]: index out of range") /\ UNCHANGED dataset
       ELSE LET s == parseDate(hdr.first, layouts)
                d == parseDate(hdr.last, layouts)
            IN  IF s.bad
                THEN Fail("could not parse date") /\ UNCHANGED dataset
                ELSE IF d.bad
                THEN /\ Fail("could not parse date")
                     /\ dataset' = [dataset EXCEPT !.start = s.t]
                ELSE /\ dataset' = [dataset EXCEPT !.start = s.t, !.date = d.t]
                     /\ pc' = "cleanup"
                     /\ err' = err
    /\ UNCHANGED <<title, cutoff, hdr, rows, daily, lxCum, lxDaily>>

\* cleanup(title, &dataset), then fetchData returns the dataset.
Cleanup ==
    /\ pc = "cleanup"
    /\ IF ToLower(title) \notin KnownTitles
       THEN Panic("invalid title") /\ UNCHANGED dataset
       ELSE LET r == assign(dataset.table["France"], cleanupTable(ToLower(title)), 1)
            IN  /\ dataset' = [dataset EXCEPT !.table["France"] = r.tbl]
                /\ IF r.panic
                   THEN Panic("tbl[i]: index out of range")
                   ELSE pc' = "render" /\ err' = err
    /\ UNCHANGED <<title, cutoff, hdr, rows, daily, lxCum, lxDaily>>

\* genImage after fetchData: both plots, then the image is served.
Render ==
    /\ pc = "render"
    /\ IF \E name \in Countries : Len(dataset.table[name]) = 0
       THEN Panic("ys[len(ys)-1]: index out of range")
            /\ UNCHANGED <<daily, lxCum, lxDaily>>
       ELSE /\ lxCum' = [name \in Countries \cap DOMAIN lockDB |->
                            lx(lockDB[name], dataset.start, Lookup(dataset.cutoff, name))]
            /\ daily' = [name \in Countries |->
                            deltaLoop(dataset.table[name], dataset.table[name], 0)]
            /\ lxDaily' = [name \in Countries \cap DOMAIN lockDB |->
                            lx(lockDB[name], dataset.start, Lookup(dataset.cutoff, name))]
            /\ pc' = "ok"
            /\ err' = err
    /\ UNCHANGED <<title, cutoff, hdr, rows, dataset>>

\* The server goes on to the next request, whatever the last one ended in
\* (net/http recovers a handler's panic).
Serve ==
    /\ pc \in {"ok", "err", "panic"}
    /\ \E r \in Requests :
         /\ title' = r[1]
         /\ cutoff' = r[2]
    /\ pc' = "get"
    /\ hdr' = NoHeader
    /\ rows' = << >>
    /\ dataset' = NewDataset
    /\ err' = ""
    /\ daily' = << >>
    /\ lxCum' = << >>
    /\ lxDaily' = << >>

Next ==
    \/ Get
    \/ ReadHeader
    \/ ReadRow
    \/ ReadEnd
    \/ Align
    \/ Dates
    \/ Cleanup
    \/ Render
    \/ Serve

Spec == Init /\ [][Next]_vars

(***************************************************************************)
(* Properties                                                              *)
(***************************************************************************)
\* The value a day cell stands for.
CellValue(c) == IF c = "" THEN 0 ELSE ParseFloat(c).v

\* Sum of day cell i over the first k records read that name `name`.
RECURSIVE SumCells(_, _, _)
SumCells(name, i, k) ==
    IF k = 0 THEN 0
    ELSE SumCells(name, i, k - 1)
         + (IF rows[k].name = name THEN CellValue(rows[k].days[i]) ELSE 0)

\* The unaligned sequence of `name`: what the records read so far add up to.
RawSeq(name) == [i \in 1..(hdr.len - 4) |-> SumCells(name, i, Len(rows))]

\* Go indices of s whose value reaches c.
Reaching(s, c) == {i \in 0..(Len(s) - 1) : s[i + 1] >= c}

\* The least index reaching c, 0 when there is none.
Least(s, c) ==
    IF Reaching(s, c) = {} THEN 0
    ELSE CHOOSE i \in Reaching(s, c) : \A j \in Reaching(s, c) : i <= j

\* t is s without its first off elements.
IsSuffixFrom(t, s, off) ==
    /\ Len(t) = Len(s) - off
    /\ \A k \in 1..Len(t) : t[k] = s[off + k]

\* s with every entry of correction table ws that lies inside s overwritten.
Overwritten(s, ws) ==
    [i \in 1..Len(s) |->
        IF \E k \in 1..Len(ws) : ws[k][1] = i - 1
        THEN ws[CHOOSE k \in 1..Len(ws) : ws[k][1] = i - 1][2]
        ELSE s[i]]

\* Every index of correction table ws lies inside s.
InRange(s, ws) == \A k \in 1..Len(ws) : ws[k][1] < Len(s)

\* The running sums d[1], d[1]+d[2], ... of the first k elements of d.
RECURSIVE RunningSums(_, _)
RunningSums(d, k) ==
    IF k = 0 THEN << >>
    ELSE LET p == RunningSums(d, k - 1)
         IN  Append(p, (IF k = 1 THEN 0 ELSE p[k - 1]) + d[k])

\* What the floor at zero removed from v up to each index.
Floored(v) ==
    RunningSums([i \in 1..Len(v) |-> IF i = 1 THEN 0 ELSE Max(0, v[i - 1] - v[i])],
                Len(v))

NonDecreasing(v) == \A i \in 2..Len(v) : v[i - 1] <= v[i]

Known == ToLower(title) \in KnownTitles

\* C1: the threshold step records, for every country, the least index whose
\* value reaches the cutoff (0 when there is none) and keeps exactly the
\* suffix of the sequence from that index.
C1_Aligned ==
    [][pc = "align" =>
        \A name \in Countries :
            LET s   == dataset.table[name]
                off == Lookup(dataset'.cutoff, name)
            IN  /\ Reaching(s, cutoff) # {} =>
                      /\ off \in Reaching(s, cutoff)
                      /\ \A j \in Reaching(s, cutoff) : off <= j
                /\ Reaching(s, cutoff) = {} =>
                      /\ off = 0
                      /\ dataset'.table[name] = s
                /\ IsSuffixFrom(dataset'.table[name], s, off)
                /\ off + Len(dataset'.table[name]) = Len(s)]_vars

\* France crossed the cutoff on its fourth day, Spain never did.
C1_Witness ==
    /\ pc = "dates"
    /\ Lookup(dataset.cutoff, "France") = 3
    /\ Len(dataset.table["France"]) = hdr.len - 4 - 3
    /\ dataset.table["France"][1] >= cutoff
    /\ Lookup(dataset.cutoff, "Spain") = 0
    /\ Len(dataset.table["Spain"]) = hdr.len - 4

\* C2: the daily series has the length of the cumulative one, starts with
\* its first value, is max(0, v[i] - v[i-1]) on the original values after
\* that, is non-negative when v is, and the dataset is left as it was.
C2_Delta ==
    [][pc = "render" /\ pc' = "ok" =>
        /\ dataset' = dataset
        /\ \A name \in Countries :
              LET v == dataset.table[name]
                  d == daily'[name]
              IN  /\ Len(d) = Len(v)
                  /\ d[1] = v[1]
                  /\ \A i \in 2..Len(v) : d[i] = Max(0, v[i] - v[i - 1])
                  /\ (\A i \in 1..Len(v) : v[i] >= 0) =>
                        (\A i \in 1..Len(d) : d[i] >= 0)]_vars

\* A rendered series that goes down somewhere and up somewhere.
C2_Witness ==
    /\ pc = "ok"
    /\ \E name \in Countries :
          /\ \E i \in 2..Len(dataset.table[name]) :
                /\ dataset.table[name][i] < dataset.table[name][i - 1]
                /\ daily[name][i] = 0
          /\ \E i \in 2..Len(dataset.table[name]) :
                /\ dataset.table[name][i] > dataset.table[name][i - 1]
                /\ daily[name][i] > 0

\* C3: for every country with a lockdown date both plots place the marker
\* at (lockdown - (start + offset days)) in days, offset being the recorded
\* cutoff offset (0 when none is recorded); start 2020-01-22 with offset 3
\* puts Italy's 2020-02-27 at 33.
C3_Projected ==
    pc = "ok" =>
        /\ DOMAIN lxCum = Countries \cap DOMAIN lockDB
        /\ DOMAIN lxDaily = DOMAIN lxCum
        /\ \A name \in DOMAIN lxCum :
              /\ lxCum[name] = lxDaily[name]
              /\ lxCum[name] = DayNumber(lockDB[name])
                               - (DayNumber(dataset.start) + Lookup(dataset.cutoff, name))
        /\ (dataset.start = Date(2020, 1, 22) /\ Lookup(dataset.cutoff, "Italy") = 3)
              => lxCum["Italy"] = 33

C3_Witness ==
    /\ pc = "ok"
    /\ dataset.start = Date(2020, 1, 22)
    /\ "Italy" \in DOMAIN dataset.cutoff
    /\ dataset.cutoff["Italy"] = 3
    /\ lxCum["Italy"] = 33
    /\ lxDaily["Italy"] = 33
    /\ "United Kingdom" \notin DOMAIN dataset.cutoff
    /\ lxCum["United Kingdom"] = 61

\* C4: while rows are being read every country's sequence has one entry per
\* day column and is the element-wise sum of the day values of the rows that
\* name it; rows naming anything else count nowhere.
C4_Accumulated ==
    pc \in {"rows", "align"} =>
        /\ DOMAIN dataset.table = Countries
        /\ \A name \in Countries :
              /\ Len(dataset.table[name]) = hdr.len - 4
              /\ dataset.table[name] = RawSeq(name)

\* Two different rows for France have been added up.
C4_Witness ==
    /\ pc = "rows"
    /\ Len(rows) = 2
    /\ rows[1].name = "France"
    /\ rows[2].name = "France"
    /\ rows[1].days # rows[2].days
    /\ hdr.len - 4 >= 3
    /\ dataset.table["France"][1] = 105
    /\ dataset.table["France"][2] = 5

\* C5 (as claimed): for a known metric the corrector completes, writes the
\* table's values and leaves everything else as it was.
C5_CorrectorCompletes ==
    [][pc = "cleanup" /\ Known =>
        /\ pc' = "render"
        /\ dataset'.table["France"] =
              Overwritten(dataset.table["France"], cleanupTable(ToLower(title)))
        /\ \A name \in Countries \ {"France"} :
              dataset'.table[name] = dataset.table[name]
        /\ dataset'.cutoff = dataset.cutoff
        /\ dataset'.start = dataset.start
        /\ dataset'.date = dataset.date]_vars

\* C6 (as claimed): the corrections are applied to the unaligned sequence,
\* and the threshold scan and truncation see the corrected values.
C6_CorrectedThenAligned ==
    (pc = "render" /\ InRange(RawSeq("France"), cleanupTable(ToLower(title)))) =>
        LET corr == Overwritten(RawSeq("France"), cleanupTable(ToLower(title)))
        IN  /\ Lookup(dataset.cutoff, "France") = Least(corr, cutoff)
            /\ dataset.table["France"] = Slice(corr, Least(corr, cutoff))

\* C6 (amended): the threshold scan and truncation run on the uncorrected
\* sequences, and the corrections are then written into the truncated
\* sequence: a correction's index counts days from the threshold crossing.
C6_AlignedThenCorrected ==
    pc = "render" =>
        \A name \in Countries :
            LET raw == RawSeq(name)
                off == Least(raw, cutoff)
            IN  /\ Lookup(dataset.cutoff, name) = off
                /\ dataset.table[name] =
                      IF name = "France"
                      THEN Overwritten(Slice(raw, off), cleanupTable(ToLower(title)))
                      ELSE Slice(raw, off)

\* France crossed on its second day; the first correction sits two days later.
C6_Witness ==
    /\ pc = "render"
    /\ ToLower(title) = "deaths"
    /\ Lookup(dataset.cutoff, "France") = 1
    /\ RawSeq("France")[3] = 100
    /\ RawSeq("France")[4] = 100
    /\ dataset.table["France"][3] = 30

\* C7 (as claimed): every key of table is a key of cutoff.
C7_EveryEntityHasEntry ==
    pc = "render" => DOMAIN dataset.table \subseteq DOMAIN dataset.cutoff

\* C7 (amended): an entity of table is a key of cutoff exactly when its
\* sequence reaches the cutoff value; for the others no entry is recorded and
\* a read of the map yields 0.  Every key of cutoff is a key of table.
C7_EntryIffReached ==
    pc = "render" =>
        /\ DOMAIN dataset.cutoff \subseteq DOMAIN dataset.table
        /\ \A name \in DOMAIN dataset.table :
              /\ name \in DOMAIN dataset.cutoff <=> Reaching(RawSeq(name), cutoff) # {}
              /\ name \notin DOMAIN dataset.cutoff => Lookup(dataset.cutoff, name) = 0

C7_Witness ==
    /\ pc = "render"
    /\ "Italy" \in DOMAIN dataset.cutoff
    /\ "France" \notin DOMAIN dataset.cutoff
    /\ \E k \in 1..Len(rows) : rows[k].name = "France"

\* C8 (as claimed): a populated cell of an ingested row that is not a
\* non-negative number makes fetchData fail, so no stored value is negative.
C8_ReaderRejectsBadCells ==
    /\ (\E k \in 1..Len(rows) :
           /\ rows[k].name \in Countries
           /\ \E i \in 1..Len(rows[k].days) :
                 /\ rows[k].days[i] # ""
                 /\ ParseFloat(rows[k].days[i]).bad \/ ParseFloat(rows[k].days[i]).v < 0)
       => pc = "err"
    /\ pc \in {"rows", "align"} =>
          \A name \in Countries :
              \A i \in 1..Len(dataset.table[name]) : dataset.table[name][i] >= 0

\* C9 (as claimed): a metric with no correction table never gets a dataset
\* to the rendering step, and the invalid-title failure is an error outcome
\* of the request; a known metric never fails that way.
C9_UnsupportedMetricIsError ==
    /\ ~Known => pc \notin {"render", "ok"}
    /\ err = "invalid title" => (~Known /\ pc = "err")

\* C10: the running sum of the daily series is the cumulative series plus
\* what the floor at zero removed: equal to it when the series never
\* decreases, never below it otherwise.
C10_RoundTrip ==
    pc = "ok" =>
        \A name \in Countries :
            LET v    == dataset.table[name]
                sums == RunningSums(daily[name], Len(daily[name]))
                gone == Floored(v)
                mono == NonDecreasing(v)
            IN  /\ Len(sums) = Len(v)
                /\ \A k \in 1..Len(v) :
                      /\ sums[k] = v[k] + gone[k]
                      /\ sums[k] >= v[k]
                      /\ mono => sums[k] = v[k]

\* One rendered series that never decreases and one that does.
C10_Witness ==
    /\ pc = "ok"
    /\ \E name \in Countries :
          /\ NonDecreasing(dataset.table[name])
          /\ \E i \in 2..Len(dataset.table[name]) :
                dataset.table[name][i] > dataset.table[name][i - 1]
    /\ \E name \in Countries :
          /\ ~NonDecreasing(dataset.table[name])
          /\ RunningSums(daily[name], Len(daily[name]))[Len(daily[name])]
                > dataset.table[name][Len(dataset.table[name])]

====
